---- MODULE Spec2Model ----
(***************************************************************************)
(* The HLB code generator (src/codegen/codegen.go): Generate walks a       *)
(* checked module and emits build requests by dispatching identifiers to   *)
(* builtins, functions, bindings, imports and parameters, composing their  *)
(* effects through registers.                                              *)
(*                                                                         *)
(* Every Emit* function of the source is an operator of the same name.     *)
(* A Go function that mutates a register and returns an error becomes an   *)
(* operator that takes the register and the world (import cache, debugger  *)
(* and host call counters, event log) and returns R(err, ret, w).          *)
(***************************************************************************)
EXTENDS Integers, Sequences, FiniteSets, TLC

VARIABLES
    body,      \* statements of the function "t" of the main module
    data,      \* obj.Data of the main module's import objects
    gen,       \* number of modules parsed so far (identity of a parsed module)
    phase,     \* "idle": no call in flight; "done": Generate has returned
    input,     \* arguments of the last Generate call
    result,    \* what the last Generate call returned
    log,       \* events of the last Generate call, in the order they happened
    calls,     \* number of Generate calls made
    checked,   \* outcome of the last CheckReferences of each import
    reg,       \* a register a client stores into and forces
    rw,        \* the world the register's closures run in
    eager,     \* the value stored so far, had every store run at once
    ew,        \* the world of the stores run at once
    seen,      \* what each Value() of the register returned
    nops,      \* number of stores made on the register
    registry,  \* the table of callables, kind -> name -> callable
    proto,     \* PrototypeIn and PrototypeOut
    initErr,   \* what initCallables returned
    heredoc,   \* a heredoc's start, terminator and pieces
    hret,      \* the register a heredoc was emitted into
    dreg,      \* the register declarations are emitted into
    dw,        \* the world the declarations are emitted in
    dcalls     \* the declarations emitted so far, with their arguments

genvars == <<body, data, gen, phase, input, result, log, calls, checked>>

regvars == <<reg, rw, eager, ew, seen, nops>>

initvars == <<registry, proto, initErr>>

docvars == <<heredoc, hret>>

declvars == <<dreg, dw, dcalls>>

vars == <<body, data, gen, phase, input, result, log, calls, checked,
          reg, rw, eager, ew, seen, nops,
          registry, proto, initErr, heredoc, hret,
          dreg, dw, dcalls>>

(***************************************************************************)
(* Bounds of the model.                                                    *)
(***************************************************************************)
MaxStmts == 2       \* statements in the body of "t"
MaxTargets == 2     \* length of a targets list
MaxFault == 4       \* which Debug yield or host call of one Generate fails
MaxGenerate == 2    \* Generate calls on the same module
MaxOps == 3         \* Set and SetAsync calls on one register
MaxValues == 2      \* Value() calls on one register
MaxText == 4        \* characters in the pieces of one heredoc
MaxDecls == 2       \* invocations of functions into one register
MaxArgs == 2        \* arguments of an invocation

(***************************************************************************)
(* Small helpers.                                                          *)
(***************************************************************************)
SeqsUpTo(S, n) == UNION {[1..k -> S] : k \in 0..n}

RECURSIVE Concat(_)
Concat(ss) == IF ss = <<>> THEN <<>> ELSE Head(ss) \o Concat(Tail(ss))

(***************************************************************************)
(* Errors.  fam is the family of the diagnostic (spec section 4.6); a      *)
(* "plain" error is one made with fmt.Errorf / errors.New.                 *)
(***************************************************************************)
NoErr == [fam |-> "ok", msg |-> "", at |-> ""]

Err(fam, msg, at) == [fam |-> fam, msg |-> msg, at |-> at]

IsErr(e) == e.fam # "ok"

(***************************************************************************)
(* Values: a kind and a representation.  A filesystem is the sequence of   *)
(* operations that built it, an option the sequence of its fragments.      *)
(***************************************************************************)
ZeroValue == [kind |-> "none", rep |-> <<>>, err |-> NoErr]

ErrorValue(e) == [kind |-> "none", rep |-> <<>>, err |-> e]

StringValue(s) == [kind |-> "string", rep |-> <<s>>, err |-> NoErr]

IsErrValue(v) == IsErr(v.err)

ErrBadCast == Err("badcast", "bad cast", "")

\* Value.Option(), Value.String(), Value.Filesystem(): the typed view or an error.
AsKind(v, k) ==
    IF IsErrValue(v) THEN [err |-> v.err, rep |-> <<>>]
    ELSE IF v.kind # k THEN [err |-> ErrBadCast, rep |-> <<>>]
    ELSE [err |-> NoErr, rep |-> v.rep]

\* Value.Request(): the request of a filesystem.
NilRequest == [type |-> "nil", fs |-> <<>>, reqs |-> <<>>]

Request(v) ==
    LET c == AsKind(v, "fs")
    IN IF IsErr(c.err) THEN [err |-> c.err, req |-> NilRequest]
       ELSE [err |-> NoErr, req |-> [type |-> "single", fs |-> c.rep, reqs |-> <<>>]]

\* solver.Parallel(requests...)
Parallel(requests) == [type |-> "parallel", fs |-> <<>>, reqs |-> requests]

(***************************************************************************)
(* The AST.  Nodes are records; a call's Name is the pair (name, ref),     *)
(* ref being the member of a qualified reference such as m.foo.            *)
(***************************************************************************)
NoExpr == [type |-> "none"]

Lit(s) == [type |-> "lit", val |-> StringValue(s)]

CallExpr(name, ref, args, sig) ==
    [type |-> "call", name |-> name, ref |-> ref, args |-> args, sig |-> sig]

FuncLit(kind, stmts) == [type |-> "funclit", kind |-> kind, body |-> stmts]

CallStmt(name, ref, args, sig, with, bind) ==
    [type |-> "call", name |-> name, ref |-> ref, args |-> args, sig |-> sig,
     with |-> with, bind |-> bind]

ExprStmt(e) == [type |-> "expr", expr |-> e]

Field(name, kind, variadic) == [name |-> name, kind |-> kind, variadic |-> variadic]

\* The main module's file, the file its import "m" names, and the file opened
\* in the directory an import of a filesystem resolves to.
MainFile == "main.hlb"
LibFile == "./lib.hlb"
ModuleFilename == "module.hlb"

\* string name() { "a"; }
NameBody == <<ExprStmt(Lit("a"))>>

\* fs f() { run "f"; }
FBody == <<CallStmt("run", "", <<Lit("f")>>, <<"string">>, NoExpr, "")>>

\* fs q(string s, option::run o) {
\*     run s with option { env "k" "v"; o; };
\*     run "i" with o;
\* }
QBody ==
    <<CallStmt("run", "", <<CallExpr("s", "", <<>>, <<>>)>>, <<"string">>,
        FuncLit("option::run",
            <<CallStmt("env", "", <<Lit("k"), Lit("v")>>, <<"string", "string">>, NoExpr, ""),
              CallStmt("o", "", <<>>, <<>>, NoExpr, "")>>),
        ""),
      CallStmt("run", "", <<Lit("i")>>, <<"string">>, CallExpr("o", "", <<>>, <<>>), "")>>

\* fs h() { image "a"; run "x" with option { mount scratch "/out" as out; };
\*          dockerPush "r" as dig; }
HBody ==
    <<CallStmt("image", "", <<Lit("a")>>, <<"string">>, NoExpr, ""),
      CallStmt("run", "", <<Lit("x")>>, <<"string">>,
        FuncLit("option::run",
            <<CallStmt("mount", "", <<CallExpr("scratch", "", <<>>, <<>>), Lit("/out")>>,
                       <<"fs", "string">>, NoExpr, "bc_out")>>),
        ""),
      CallStmt("dockerPush", "", <<Lit("r")>>, <<"string">>, NoExpr, "bc_dig")>>

\* fs v(string s, variadic string r) { run s; }
VBody == <<CallStmt("run", "", <<CallExpr("s", "", <<>>, <<>>)>>, <<"string">>, NoExpr, "")>>

\* lib.hlb: fs foo() { run "foo"; }
FooBody == <<CallStmt("run", "", <<Lit("foo")>>, <<"string">>, NoExpr, "")>>

\* The statements the body of "t" is made of: call statements on a builtin, a
\* function, an import member, a parameterised function and a binding, and bare
\* expression statements (a call expression, a function literal).
StmtPool ==
    { CallStmt("image", "", <<CallExpr("name", "", <<>>, <<>>)>>, <<"string">>, NoExpr, ""),
      CallStmt("run", "", <<Lit("b")>>, <<"string">>,
        FuncLit("option::run",
            <<CallStmt("env", "", <<Lit("k"), Lit("v")>>, <<"string", "string">>, NoExpr, "")>>),
        ""),
      CallStmt("f", "", <<>>, <<>>, NoExpr, ""),
      CallStmt("m", "foo", <<>>, <<>>, NoExpr, ""),
      CallStmt("m", "nope", <<>>, <<>>, NoExpr, ""),
      CallStmt("n", "foo", <<>>, <<>>, NoExpr, ""),
      ExprStmt(CallExpr("run", "", <<Lit("e")>>, <<"string">>)),
      ExprStmt(FuncLit("fs",
        <<CallStmt("run", "", <<Lit("g")>>, <<"string">>, NoExpr, "")>>)),
      CallStmt("q", "", <<Lit("h"), FuncLit("option::run",
            <<CallStmt("mount", "", <<CallExpr("scratch", "", <<>>, <<>>), Lit("/x")>>,
                       <<"fs", "string">>, NoExpr, "")>>)>>,
        <<"string", "option::run">>, NoExpr, ""),
      CallStmt("out", "", <<>>, <<>>, NoExpr, "") }

Bodies == SeqsUpTo(StmtPool, MaxStmts)

(***************************************************************************)
(* Declarations: the nodes scope objects point to.                         *)
(***************************************************************************)
FuncDecl(mod, name, kind, params, stmts) ==
    [type |-> "func", mod |-> mod, name |-> name, kind |-> kind,
     params |-> params, body |-> stmts]

ImportDecl(name, expr) == [type |-> "import", name |-> name, expr |-> expr]

BindClause(id, closure) == [type |-> "bind", id |-> id, closure |-> closure]

BuiltinDecl(name, kinds) == [type |-> "builtin", name |-> name, kinds |-> kinds]

NilObj == [type |-> "nil"]

\* Keys of a module's root scope (mod.Scope.Objects).
ModuleNames(mod) ==
    IF mod = "main" THEN {"t", "f", "q", "v", "h", "name", "m", "n", "out", "dig"}
    ELSE IF mod = "lib" THEN {"foo"}
    ELSE {}

ModuleDecl(mod, name) ==
    IF mod = "main" THEN
        CASE name = "t" -> FuncDecl("main", "t", "fs", <<>>, body)
          [] name = "f" -> FuncDecl("main", "f", "fs", <<>>, FBody)
          [] name = "q" -> FuncDecl("main", "q", "fs",
                               <<Field("s", "string", FALSE), Field("o", "option::run", FALSE)>>,
                               QBody)
          [] name = "v" -> FuncDecl("main", "v", "fs",
                               <<Field("s", "string", FALSE), Field("r", "string", TRUE)>>,
                               VBody)
          [] name = "h" -> FuncDecl("main", "h", "fs", <<>>, HBody)
          [] name = "name" -> FuncDecl("main", "name", "string", <<>>, NameBody)
          [] name = "m" -> ImportDecl("m", Lit(LibFile))
          [] name = "n" -> ImportDecl("n", FuncLit("fs",
                <<CallStmt("image", "", <<Lit("n")>>, <<"string">>, NoExpr, "")>>))
          [] name = "out" -> BindClause("bc_out", "h")
          [] name = "dig" -> BindClause("bc_dig", "h")
          [] OTHER -> NilObj
    ELSE IF mod = "lib" /\ name = "foo" THEN FuncDecl("lib", "foo", "fs", <<>>, FooBody)
    ELSE NilObj

\* The builtins and the kinds each is declared for, in declaration order.
BuiltinNames == {"scratch", "image", "run", "env", "dockerPush", "mount", "format"}

BuiltinKinds(name) ==
    CASE name = "env" -> <<"fs", "option::run">>
      [] name = "mount" -> <<"option::run">>
      [] name = "format" -> <<"string">>
      [] OTHER -> <<"fs">>

(***************************************************************************)
(* Scopes.  A scope is the module it belongs to, the function it was made  *)
(* for ("" for the module's root scope) and the objects inserted into it.  *)
(***************************************************************************)
ModuleScope(mod) == [mod |-> mod, fun |-> "", objs |-> <<>>]

Object(name, node, dat) == [name |-> name, node |-> node, data |-> dat]

\* Scope.Lookup: the scope's own objects, then the function's declared scope
\* (its parameters, unbound), then the module's root scope, then the builtins.
Lookup(scope, name) ==
    LET own == {i \in 1..Len(scope.objs) : scope.objs[i].name = name}
        fun == ModuleDecl(scope.mod, scope.fun)
        declared == IF scope.fun = "" THEN {}
                    ELSE {i \in 1..Len(fun.params) : fun.params[i].name = name}
    IN IF own # {} THEN scope.objs[CHOOSE i \in own : TRUE]
       ELSE IF declared # {}
         THEN Object(name, [type |-> "field"], [kind |-> "nil"])
       ELSE IF name \in ModuleNames(scope.mod)
         THEN Object(name, ModuleDecl(scope.mod, name), [kind |-> "nil"])
       ELSE IF name \in BuiltinNames
         THEN Object(name, BuiltinDecl(name, BuiltinKinds(name)), [kind |-> "nil"])
       ELSE Object(name, NilObj, [kind |-> "nil"])


(***************************************************************************)
(* The world an evaluation runs in and changes: the import objects' data,  *)
(* the number of modules parsed, the debugger yields and host calls made   *)
(* so far, the event log, and the faults of the environment (which Debug   *)
(* yield or host call fails, what happens to an import's file).            *)
(***************************************************************************)
NoModule == [mod |-> "", gen |-> 0]

ImportNames == {"m", "n"}

ImportOutcomes == {"resolve", "notexist", "open", "parse", "semantic", "check"}

NoFault == [debug |-> 0, call |-> 0, imp |-> "ok"]

Faults ==
    {NoFault}
    \cup {[NoFault EXCEPT !.debug = k] : k \in 1..MaxFault}
    \cup {[NoFault EXCEPT !.call = k] : k \in 1..MaxFault}
    \cup {[NoFault EXCEPT !.imp = o] : o \in ImportOutcomes}

World(d, g, flt) ==
    [data |-> d, gen |-> g, nd |-> 0, nc |-> 0, log |-> <<>>, flt |-> flt, depth |-> 0]

Log(w, e) == [w EXCEPT !.log = Append(@, e)]

\* An error arises: the log keeps the order errors were encountered in.
Raise(w, e) == Log(w, [ev |-> "error", err |-> e])

\* A failed conversion: bad cast is a new error, the error of an errored value
\* is that value's error, met before.
RaiseCast(w, e) == IF e.fam = "badcast" THEN Raise(w, e) ELSE w

\* The result of an Emit* function: its error, the register it wrote to, the world.
R(err, ret, w) == [err |-> err, ret |-> ret, w |-> w]

(***************************************************************************)
(* Contexts carry the return type hint and the binding.                    *)
(***************************************************************************)
NoBinding == [bind |-> "", name |-> "", closure |-> ""]

Background == [rt |-> "none", bind |-> NoBinding]

WithReturnType(ctx, kind) == [ctx EXCEPT !.rt = kind]

ReturnType(ctx) == ctx.rt

WithBinding(ctx, b) == [ctx EXCEPT !.bind = b]

\* BindClause.TargetBinding(name)
TargetBinding(n, name) == [bind |-> n.id, name |-> name, closure |-> n.closure]

(***************************************************************************)
(* Registers.  A register holds a value and the closures SetAsync has      *)
(* deferred; Value() forces them in insertion order.                       *)
(***************************************************************************)
NewRegister == [value |-> ZeroValue, queue |-> <<>>]

SetAsync(r, f) == [r EXCEPT !.queue = Append(@, f)]

Set(r, v) ==
    IF r.queue # <<>> THEN SetAsync(r, [type |-> "const", val |-> v])
    ELSE IF IsErrValue(r.value) THEN r
    ELSE [r EXCEPT !.value = v]

\* The value a closure hands back: (Value, error) with the error stored as the value.
Returned(val, err) == IF IsErr(err) THEN ErrorValue(err) ELSE val

(***************************************************************************)
(* The debugger: Debug(ctx, scope, node, ret, opts) yields and may fail.   *)
(***************************************************************************)
Debug(at, node, opts, w) ==
    LET w1 == Log([w EXCEPT !.nd = @ + 1],
                  [ev |-> "debug", at |-> at, node |-> node, opts |-> opts,
                   n |-> w.nd + 1, d |-> w.depth])
        err == Err("debug", "debugger stopped", node)
    IN IF w.nd + 1 = w.flt.debug THEN [err |-> err, w |-> Raise(w1, err)]
       ELSE [err |-> NoErr, w |-> w1]

(***************************************************************************)
(* The callable registry: kind -> name -> callable, and each callable's    *)
(* domain-specific parameters after the prototype's prefix.                *)
(***************************************************************************)
Callables(kind) ==
    CASE kind = "fs" -> {"scratch", "image", "run", "env", "dockerPush"}
      [] kind = "string" -> {"format"}
      [] kind = "option::run" -> {"env", "mount"}
      [] OTHER -> {}

CallableParams(kind, name) ==
    CASE name = "scratch" -> [fixed |-> <<>>, variadic |-> FALSE, rest |-> ""]
      [] name = "env" -> [fixed |-> <<"string", "string">>, variadic |-> FALSE, rest |-> ""]
      [] name = "mount" -> [fixed |-> <<"fs", "string">>, variadic |-> FALSE, rest |-> ""]
      [] name = "format" -> [fixed |-> <<"string">>, variadic |-> TRUE, rest |-> "string"]
      [] OTHER -> [fixed |-> <<"string">>, variadic |-> FALSE, rest |-> ""]

\* cg.extraSolveOpts
ExtraSolveOpts == <<>>

\* Value.Reflect(type): the typed view of an argument, or bad cast.
Reflect(arg, kind) ==
    IF IsErrValue(arg) THEN arg.err
    ELSE IF arg.kind # kind THEN ErrBadCast
    ELSE NoErr

\* The kind of value a callable of a Callables row returns.
ValueKind(kind) == IF kind \in {"fs", "string"} THEN kind ELSE "option"

\* A host callable's Call(ctx, cln, v, opts, args...): it fails when the
\* environment says so, and otherwise returns the incoming value of its own
\* kind extended by this call.
HostCall(kind, name, ctx, v, opts, ins, w) ==
    LET n == w.nc + 1
        w1 == Log([w EXCEPT !.nc = n],
                  [ev |-> "call", kind |-> kind, name |-> name, in |-> v,
                   opts |-> opts, args |-> ins, bind |-> ctx.bind.bind])
        base == IF v.kind = ValueKind(kind) THEN v.rep ELSE <<>>
        op == [name |-> name, args |-> ins, opts |-> opts, bind |-> ctx.bind.bind]
    IN IF n = w.flt.call
       THEN [val |-> ZeroValue, err |-> Err("host", "call failed", name),
             w |-> Raise(w1, Err("host", "call failed", name))]
       ELSE [val |-> [kind |-> ValueKind(kind), rep |-> Append(base, op), err |-> NoErr],
             err |-> NoErr, w |-> w1]

\* The first of a sequence of errors that is one, NoErr when none is.
RECURSIVE FirstErr(_)
FirstErr(errs) ==
    IF errs = <<>> THEN NoErr
    ELSE IF IsErr(Head(errs)) THEN Head(errs)
    ELSE FirstErr(Tail(errs))

\* The rows of the table the callable is looked for in, in order.
\* Variant: the builtin's declared kinds whatever the return type.
CandidateKinds_Declared(ctx, bd) == bd.kinds

CandidateKinds(ctx, bd) ==
    IF ReturnType(ctx) # "none" THEN <<ReturnType(ctx)>> ELSE bd.kinds

\* The arguments handed to the callable after the prototype's.
\* Variant: the arguments after the regular ones left out.
CallIns_Regular(sig, args) == SubSeq(args, 1, Len(sig.fixed))

CallIns(sig, args) == IF sig.variadic THEN args ELSE SubSeq(args, 1, Len(sig.fixed))

EmitBuiltinDecl(ctx, scope, bd, args, opts, b, v, w) ==
    LET kinds == CandidateKinds(ctx, bd)
        found == {i \in 1..Len(kinds) : bd.name \in Callables(kinds[i])}
        kind == kinds[CHOOSE i \in found : \A j \in found : i <= j]
        ctx1 == IF b # NoBinding THEN WithBinding(ctx, b) ELSE ctx
        opts1 == opts \o ExtraSolveOpts
        sig == CallableParams(kind, bd.name)
        expected == Len(sig.fixed)
        regular == [i \in 1..expected |-> Reflect(args[i], sig.fixed[i])]
        tail == IF sig.variadic
                THEN [i \in 1..(Len(args) - expected) |->
                        Reflect(args[expected + i], sig.rest)]
                ELSE <<>>
        ins == CallIns(sig, args)
        fail(e, ww) == [val |-> ZeroValue, err |-> e, w |-> ww]
    IN IF found = {}
       THEN fail(Err("internal", "unrecognized builtin", bd.name),
                 Raise(w, Err("internal", "unrecognized builtin", bd.name)))
       ELSE IF Len(args) < expected
       THEN fail(Err("internal", "expected args", bd.name),
                 Raise(w, Err("internal", "expected args", bd.name)))
       ELSE IF IsErr(FirstErr(regular \o tail))
       THEN fail(FirstErr(regular \o tail), RaiseCast(w, FirstErr(regular \o tail)))
       ELSE HostCall(kind, bd.name, ctx1, v, opts1, ins, w)


(***************************************************************************)
(* The imported file: what parsing and checking it gives.  A parsed module *)
(* is a new module object each time; stage is how far it got.              *)
(***************************************************************************)
Parsed(g, stage) == [mod |-> "lib", gen |-> g, stage |-> stage]

\* checker.CheckReferences(mod, name): every reference name.member of the
\* module resolves in the imported module's scope.
References(mod, name) ==
    IF mod = "main"
    THEN {body[i].ref : i \in {j \in 1..Len(body) :
                                 body[j].type = "call" /\ body[j].name = name}}
    ELSE {}

CheckReferences(mod, name, imod) ==
    IF References(mod, name) \subseteq ModuleNames(imod.mod) THEN NoErr
    ELSE Err("check", "undefined reference", name)

\* NewValue(ctx, obj.Data) for a parameter: the bound value, or an error for
\* a parameter that was never bound.
NewValue(dat) ==
    IF dat.kind = "nil" THEN [err |-> Err("internal", "invalid value", ""), val |-> ZeroValue]
    ELSE [err |-> NoErr, val |-> dat]

\* CallStmt.Breakpoint(returnType)
Breakpoint(call, rt) == call.name = "breakpoint" /\ rt = "fs"

Block(kind, stmts) == [nil |-> FALSE, kind |-> kind, stmts |-> stmts]

(***************************************************************************)
(* The code generator.                                                     *)
(***************************************************************************)
RECURSIVE Run(_)

\* Variant: A Value() that keeps running closures once the value is an error.
Force_NoShortCircuit(r, w) ==
    IF r.queue = <<>> THEN [ret |-> r, w |-> w]
    ELSE LET a == Run(<<"Apply", Head(r.queue), r.value, w>>)
         IN Run(<<"Force", [value |-> a.val, queue |-> Tail(r.queue)], a.w>>)

\* Register.Value(): runs the deferred closures in insertion order, each on the
\* value its predecessor left; once the value is an error the rest are skipped.
Force(r, w) ==
    IF r.queue = <<>> THEN [ret |-> r, w |-> w]
    ELSE IF IsErrValue(r.value) THEN Run(<<"Force", [r EXCEPT !.queue = Tail(@)], w>>)
    ELSE LET a == Run(<<"Apply", Head(r.queue), r.value, w>>)
         IN Run(<<"Force", [value |-> a.val, queue |-> Tail(r.queue)], a.w>>)

\* The closure EmitBlock defers for a call statement.
ApplyCallStmt(f, v, w) ==
    LET l == Run(<<"lookupCall", f.ctx, f.scope, f.stmt.name, w>>)
        e == Run(<<"EmitCallStmt", f.ctx, f.scope, f.stmt, f.b, Set(NewRegister, v), l.w>>)
        forced == Run(<<"Force", e.ret, e.w>>)
    IN IF IsErr(l.err) THEN [val |-> ErrorValue(l.err), w |-> l.w]
       ELSE [val |-> Returned(forced.ret.value, e.err), w |-> forced.w]

\* The closure EmitExpr defers for a call expression.
ApplyCallExpr(f, v, w) ==
    LET l == Run(<<"lookupCall", f.ctx, f.scope, f.expr.name, w>>)
        e == Run(<<"EmitCallExpr", f.ctx, f.scope, f.expr, Set(NewRegister, v), l.w>>)
        forced == Run(<<"Force", e.ret, e.w>>)
    IN IF IsErr(l.err) THEN [val |-> ErrorValue(l.err), w |-> l.w]
       ELSE [val |-> Returned(forced.ret.value, e.err), w |-> forced.w]

\* The closure EmitIdentExpr defers for a builtin.
ApplyBuiltin(f, v, w) ==
    LET c == EmitBuiltinDecl(f.ctx, f.scope, f.bd, f.args, f.opts, f.b, v,
                             Log(w, [ev |-> "apply", name |-> f.bd.name, in |-> v,
                                     args |-> f.args, opts |-> f.opts]))
    IN [val |-> Returned(c.val, c.err), w |-> c.w]

\* One deferred closure applied to the register's prior value v.
Apply(f, v, w) ==
    CASE f.type = "const" -> [val |-> f.val, w |-> w]
      [] f.type = "builtin" -> ApplyBuiltin(f, v, w)
      [] f.type = "callstmt" -> ApplyCallStmt(f, v, w)
      [] f.type = "callexpr" -> ApplyCallExpr(f, v, w)

EmitExpr(ctx, scope, expr, args, opts, b, ret, w) ==
    CASE expr.type = "funclit" ->
            Run(<<"EmitBlock", ctx, scope, Block(expr.kind, expr.body), b, ret, w>>)
      [] expr.type = "lit" -> R(NoErr, Set(ret, expr.val), w)
      [] expr.type = "call" ->
            R(NoErr, SetAsync(ret, [type |-> "callexpr", ctx |-> ctx, scope |-> scope,
                                    expr |-> expr]), w)
      [] OTHER -> R(Err("internal", "invalid expr", ""), ret,
                    Raise(w, Err("internal", "invalid expr", "")))

\* Variant: A call expression dispatched whatever the debugger returned.
EmitCallExpr_Unyielding(ctx, scope, call, ret, w) ==
    LET d == Debug("callexpr", call.name, <<>>, w)
        a == Run(<<"Evaluate", ctx, scope, NoBinding, call.sig, call.args, d.w>>)
    IN IF IsErr(a.err) THEN R(a.err, ret, a.w)
       ELSE Run(<<"EmitIdentExpr", ctx, scope, call, call.name, a.values, <<>>, NoBinding, ret,
                  Log(a.w, [ev |-> "callexpr", name |-> call.name, yield |-> d.w.nd])>>)

EmitCallExpr(ctx, scope, call, ret, w) ==
    LET d == Debug("callexpr", call.name, <<>>, w)
        a == Run(<<"Evaluate", ctx, scope, NoBinding, call.sig, call.args, d.w>>)
    IN IF IsErr(d.err) THEN R(d.err, ret, d.w)
       ELSE IF IsErr(a.err) THEN R(a.err, ret, a.w)
       ELSE Run(<<"EmitIdentExpr", ctx, scope, call, call.name, a.values, <<>>, NoBinding, ret,
                  Log(a.w, [ev |-> "callexpr", name |-> call.name, yield |-> d.w.nd])>>)

\* Variant: A dispatch that calls the builtin when it is emitted.
EmitIdentBuiltin_Eager(ctx, scope, n, args, opts, b, ret, w) ==
    LET c == EmitBuiltinDecl(ctx, scope, n, args, opts, b, ret.value, w)
    IN R(c.err, Set(ret, c.val), c.w)

\* EmitIdentExpr on a BuiltinDecl: the call is deferred on the register.
EmitIdentBuiltin(ctx, scope, n, args, opts, b, ret, w) ==
    LET deferred == SetAsync(ret, [type |-> "builtin", ctx |-> ctx, scope |-> scope,
                                   bd |-> n, args |-> args, opts |-> opts, b |-> b])
    IN R(NoErr, deferred,
         Log(w, [ev |-> "defer", name |-> n.name, prior |-> ret.value,
                 queued |-> Len(deferred.queue) - Len(ret.queue),
                 args |-> args, opts |-> opts]))

\* Variant: The parameter's options first.
AppendOptions_Swapped(retOpts, valOpts) == valOpts \o retOpts

\* append(retOpts, valOpts...)
AppendOptions(retOpts, valOpts) == retOpts \o valOpts

\* EmitIdentExpr on a function parameter: append options to options, assign
\* anything else.
EmitIdentField(obj, ret, w) ==
    LET val == NewValue(obj.data)
        forced == Run(<<"Force", ret, w>>)
        cur == forced.ret.value
        retOpts == AsKind(cur, "option")
        valOpts == AsKind(val.val, "option")
        done(before, after, ww) ==
            R(NoErr, after, Log(ww, [ev |-> "field", name |-> obj.name, val |-> val.val,
                                     before |-> before, after |-> after, obj |-> obj]))
    IN IF IsErr(val.err) THEN R(val.err, ret, Raise(w, val.err))
       ELSE IF val.val.kind # "option" THEN done(ret, Set(ret, val.val), w)
       ELSE IF cur.kind # "option" THEN done(forced.ret, Set(forced.ret, val.val), forced.w)
       ELSE done(forced.ret,
                 Set(forced.ret, [kind |-> "option", err |-> NoErr,
                                  rep |-> AppendOptions(retOpts.rep, valOpts.rep)]),
                 forced.w)

EmitIdentExpr(ctx, scope, ie, lookup, args, opts, b, ret, w) ==
    LET obj == Lookup(scope, lookup)
        n == obj.node
        w1 == Log(w, [ev |-> "ident", name |-> lookup, node |-> n.type, bind |-> b,
                      args |-> args, opts |-> opts])
        fail(e) == R(e, ret, Raise(w1, e))
    IN CASE n.type = "nil" -> fail(Err("undefined", "undefined ident", lookup))
         [] n.type = "builtin" -> EmitIdentBuiltin(ctx, scope, n, args, opts, b, ret, w1)
         [] n.type = "func" -> Run(<<"EmitFuncDecl", ctx, n, args, NoBinding, ret, w1>>)
         [] n.type = "bind" -> Run(<<"EmitBinding", ctx, TargetBinding(n, lookup), args, ret, w1>>)
         [] n.type = "import" ->
              LET imod == w.data[lookup]
              IN IF imod = NoModule
                 THEN fail(Err("internal", "expected imported module to be resolved", lookup))
                 ELSE IF ie.ref = ""
                 THEN fail(Err("panic", "nil pointer dereference", lookup))
                 ELSE Run(<<"EmitIdentExpr", ctx, ModuleScope(imod.mod), ie, ie.ref, args, opts,
                        NoBinding, ret,
                        Log(w1, [ev |-> "redispatch", name |-> lookup, ref |-> ie.ref,
                                 imod |-> imod])>>)
         [] n.type = "field" -> EmitIdentField(obj, ret, w1)
         [] OTHER -> fail(Err("internal", "invalid resolved object", lookup))

EmitImport(ctx, mod, id, w) ==
    LET e == Run(<<"EmitExpr", WithReturnType(ctx, "none"), ModuleScope(mod), id.expr, <<>>, <<>>,
                      NoBinding, NewRegister, w>>)
        forced == Run(<<"Force", e.ret, e.w>>)
        val == forced.ret.value
        w1 == forced.w
        filename == IF val.kind = "fs" THEN ModuleFilename
                    ELSE IF val.kind = "string" THEN val.rep[1]
                    ELSE ""
        o == w1.flt.imp
        g == w1.gen + 1
        w2 == [w1 EXCEPT !.gen = g]
        fail(fam, imod, ww) ==
            [imod |-> imod, filename |-> filename, err |-> Err(fam, "import", id.name),
             w |-> Raise(Log(ww, [ev |-> "import", name |-> id.name, ok |-> FALSE,
                                  gen |-> imod.gen]),
                         Err(fam, "import", id.name))]
    IN IF IsErr(e.err) THEN [imod |-> NoModule, filename |-> "", err |-> e.err, w |-> e.w]
       ELSE IF val.kind = "fs" /\ o = "resolve" THEN fail("resolve", NoModule, w1)
       ELSE IF o = "notexist" THEN fail("importpathnotexist", NoModule, w1)
       ELSE IF o = "open" THEN fail("open", NoModule, w1)
       ELSE IF o = "parse" \/ filename = "" THEN fail("parse", NoModule, w1)
       ELSE IF o = "semantic" THEN fail("semantic", Parsed(g, "parsed"), w2)
       ELSE IF o = "check" THEN fail("check", Parsed(g, "semantic"), w2)
       ELSE [imod |-> Parsed(g, "checked"), filename |-> filename, err |-> NoErr,
             w |-> Log(w2, [ev |-> "import", name |-> id.name, ok |-> TRUE, gen |-> g])]

\* The objects inserted into the scope made for one invocation.
BindParams_New(fun, args) ==
    LET params == fun.params
        bound == {i \in 1..Len(params) : ~params[i].variadic}
    IN [k \in 1..Cardinality(bound) |->
          LET i == CHOOSE i \in bound : Cardinality({j \in bound : j < i}) = k - 1
          IN Object(params[i].name, [type |-> "field"], args[i])]

\* Variant: the bindings of the function's first invocation kept for the later ones.
BindParams_Kept(fun, args, w) ==
    LET made == SelectSeq(w.log, LAMBDA e : e.ev = "scope" /\ e.fun = fun.name)
    IN IF made # <<>> THEN made[1].objs ELSE BindParams_New(fun, args)

BindParams(fun, args, w) == BindParams_New(fun, args)

EmitFuncDecl(ctx, fun, args, b, ret, w) ==
    LET params == fun.params
        objs == BindParams(fun, args, w)
        scope == [mod |-> fun.mod, fun |-> fun.name, objs |-> objs]
        d == Debug("func", fun.name, <<>>,
                   Log(w, [ev |-> "scope", fun |-> fun.name, objs |-> objs, args |-> args]))
        arity == Err("internal", "expected args", IF b # NoBinding THEN b.name ELSE fun.name)
    IN IF Len(params) # Len(args) THEN R(arity, ret, Raise(w, arity))
       ELSE IF IsErr(d.err) THEN R(d.err, ret, d.w)
       ELSE Run(<<"EmitBlock", ctx, scope, Block(fun.kind, fun.body), b, ret,
                  Log(d.w, [ev |-> "body", fun |-> fun.name, yield |-> d.w.nd])>>)

EmitBinding(ctx, b, args, ret, w) ==
    Run(<<"EmitFuncDecl", ctx, ModuleDecl("main", b.closure), args, b, ret, w>>)

\* Variant: An import object that never counts as resolved.
Resolved_Never(dat) == FALSE

\* _, ok := obj.Data.(*ast.Module)
Resolved(dat) == dat # NoModule

\* Variant: A lookup that installs whatever EmitImport returned and ignores its error.
lookupCall_Unchecked(ctx, scope, lookup, w) ==
    LET n == Lookup(scope, lookup).node
        w0 == Log(w, [ev |-> "lookup", name |-> lookup, node |-> n.type])
        i == Run(<<"EmitImport", ctx, scope.mod, n, w0>>)
    IN IF n.type # "import" \/ Resolved(w.data[lookup]) THEN [err |-> NoErr, w |-> w0]
       ELSE [err |-> NoErr, w |-> [i.w EXCEPT !.data[lookup] = i.imod]]

lookupCall(ctx, scope, lookup, w) ==
    LET obj == Lookup(scope, lookup)
        n == obj.node
        mod == scope.mod
        w0 == Log(w, [ev |-> "lookup", name |-> lookup, node |-> n.type])
        i == Run(<<"EmitImport", ctx, mod, n, w0>>)
        w1 == [i.w EXCEPT !.data[lookup] = i.imod]
        refs == CheckReferences(mod, lookup, i.imod)
        undefined == Err("undefined", "undefined ident", lookup)
    IN IF n.type = "nil" THEN [err |-> undefined, w |-> Raise(w0, undefined)]
       ELSE IF n.type # "import" THEN [err |-> NoErr, w |-> w0]
       ELSE IF Resolved(w.data[lookup]) THEN [err |-> NoErr, w |-> w0]
       ELSE IF IsErr(i.err) THEN [err |-> i.err, w |-> i.w]
       ELSE IF IsErr(refs)
       THEN [err |-> refs,
             w |-> Raise(Log(w1, [ev |-> "checkrefs", name |-> lookup, ok |-> FALSE]), refs)]
       ELSE [err |-> NoErr, w |-> Log(w1, [ev |-> "checkrefs", name |-> lookup, ok |-> TRUE])]

EmitStmts(ctx, scope, stmts, b, ret, w) ==
    IF stmts = <<>> THEN R(NoErr, ret, w)
    ELSE LET stmt == Head(stmts)
             e == CASE stmt.type = "call" ->
                          R(NoErr, SetAsync(ret, [type |-> "callstmt", ctx |-> ctx,
                                                  scope |-> scope, stmt |-> stmt, b |-> b]), w)
                    [] stmt.type = "expr" ->
                          Run(<<"EmitExpr", ctx, scope, stmt.expr, <<>>, <<>>, b, ret, w>>)
                    [] OTHER -> R(Err("internal", "invalid stmt", ""), ret,
                                  Raise(w, Err("internal", "invalid stmt", "")))
         IN IF IsErr(e.err) THEN e
            ELSE Run(<<"EmitStmts", ctx, scope, Tail(stmts), b, e.ret, e.w>>)

RECURSIVE Reverse(_)
Reverse(s) == IF s = <<>> THEN <<>> ELSE Append(Reverse(Tail(s)), Head(s))

\* Variant: A block whose statements are emitted last to first.
EmitBlock_Reversed(ctx, scope, block, b, ret, w) ==
    Run(<<"EmitStmts", WithReturnType(ctx, block.kind), scope, Reverse(block.stmts), b, ret, w>>)

EmitBlock(ctx, scope, block, b, ret, w) ==
    IF block.nil THEN R(NoErr, ret, w)
    ELSE Run(<<"EmitStmts", WithReturnType(ctx, block.kind), scope, block.stmts, b, ret, w>>)

\* Variant: The binding handed on whatever the statement's bind clause.
PassBinding_Always(b, call) == b

\* The binding EmitCallStmt hands to the call it dispatches.
PassBinding(b, call) == IF b # NoBinding /\ call.bind = b.bind THEN b ELSE NoBinding

\* The kind hint given to the with clause's expression.
\* Variant: the hint does not name the call.
WithKinds_Plain(call) == <<"option">>

WithKinds(call) == <<"option::" \o call.name>>

EmitCallStmt(ctx, scope, call, b, ret, w) ==
    LET a == Run(<<"Evaluate", ctx, scope, NoBinding, call.sig, call.args,
                   Log(w, [ev |-> "stmt", name |-> call.name, sig |-> call.sig,
                           nargs |-> Len(call.args), with |-> call.with # NoExpr,
                           d |-> w.depth])>>)
        kinds == WithKinds(call)
        wc == IF call.with = NoExpr
              THEN [values |-> <<>>, err |-> NoErr, w |-> a.w]
              ELSE Run(<<"Evaluate", ctx, scope, b, kinds, <<call.with>>, a.w>>)
        o == IF call.with = NoExpr THEN [err |-> NoErr, rep |-> <<>>]
             ELSE AsKind(wc.values[1], "option")
        bad == {i \in 1..Len(a.values) : a.values[i].kind # "string"}
        bp == Breakpoint(call, ReturnType(ctx))
        strings == Err("plain", "breakpoint args must be strings", call.name)
        opts == IF bp /\ a.values # <<>>
                THEN Append(o.rep, [name |-> "breakpointCommand",
                                    args |-> a.values, opts |-> <<>>, bind |-> ""])
                ELSE o.rep
        d == Debug("callstmt", call.name, opts, wc.w)
        binding == PassBinding(b, call)
        w1 == Log(d.w, [ev |-> "callstmt", name |-> call.name, sbind |-> call.bind,
                        cur |-> b, passed |-> binding, yield |-> d.w.nd,
                        d |-> w.depth])
    IN IF IsErr(a.err) THEN R(a.err, ret, a.w)
       ELSE IF IsErr(wc.err) THEN R(wc.err, ret, wc.w)
       ELSE IF IsErr(o.err) THEN R(o.err, ret, RaiseCast(wc.w, o.err))
       ELSE IF bp /\ bad # {} THEN R(strings, ret, Raise(wc.w, strings))
       ELSE IF IsErr(d.err) THEN R(d.err, ret, d.w)
       ELSE Run(<<"EmitIdentExpr", ctx, scope, call, call.name, a.values, opts, binding, ret, w1>>)

\* Evaluate returns [values, err, w].
Evaluate(ctx, scope, b, kinds, exprs, w) ==
    IF Len(kinds) # Len(exprs)
    THEN [values |-> <<>>, err |-> Err("internal", "expected kinds", ""),
          w |-> Raise(w, Err("internal", "expected kinds", ""))]
    ELSE IF exprs = <<>> THEN [values |-> <<>>, err |-> NoErr, w |-> w]
    ELSE LET e == Run(<<"EmitExpr", WithReturnType(ctx, Head(kinds)), scope, Head(exprs), <<>>, <<>>,
                           b, NewRegister,
                           Log([w EXCEPT !.depth = @ + 1],
                               [ev |-> "eval", kind |-> Head(kinds), left |-> Len(exprs),
                                d |-> w.depth])>>)
             f == Run(<<"Force", e.ret, e.w>>)
             forced == [ret |-> f.ret,
                        w |-> Log([f.w EXCEPT !.depth = w.depth],
                                  [ev |-> "forced", val |-> f.ret.value, d |-> w.depth])]
             rest == Run(<<"Evaluate", ctx, scope, b, Tail(kinds), Tail(exprs), forced.w>>)
         IN IF IsErr(e.err)
            THEN [values |-> <<>>, err |-> e.err, w |-> Log([e.w EXCEPT !.depth = w.depth],
                            [ev |-> "failed", err |-> e.err, d |-> w.depth])]
            ELSE [values |-> <<forced.ret.value>> \o rest.values, err |-> rest.err,
                  w |-> rest.w]

(***************************************************************************)
(* Generate(ctx, mod, targets) on the main module.                         *)
(***************************************************************************)
TargetNames == {"t", "h", "m", "zz"}

\* The identifier expression Generate builds for a target.
NewIdentExpr(name) == [type |-> "call", name |-> name, ref |-> ""]

\* Variant: No test of the target against the root scope.
TargetDefined_Unchecked(name) == TRUE

\* _, ok := mod.Scope.Objects[target.Name]
TargetDefined(name) == name \in ModuleNames("main")

TargetErr(name) ==
    Err("plain", "target " \o name \o " is not defined in " \o MainFile, name)

\* Variant: The request put in front of the earlier ones.
AppendRequest_Front(requests, request) == <<request>> \o requests

\* requests = append(requests, request)
AppendRequest(requests, request) == Append(requests, request)

\* Variant: A failure that returns a request next to the error.
GenerateFail_Partial(err, w) == [req |-> Parallel(<<>>), err |-> err, w |-> w]

\* return nil, err
GenerateFail(err, w) == [req |-> NilRequest, err |-> err, w |-> w]

\* ret := NewRegister(ctx), for each target.
\* Variant: the register of a target still holds what the target before it left.
TargetRegister_Carried(w) ==
    LET done == SelectSeq(w.log, LAMBDA e : e.ev = "request")
    IN IF done = <<>> THEN NewRegister
       ELSE [value |-> done[Len(done)].val, queue |-> <<>>]

TargetRegister(w) == NewRegister

GenerateFrom(i, targets, requests, w) ==
    IF i > Len(targets)
    THEN [req |-> Parallel(requests), err |-> NoErr, w |-> w]
    ELSE LET name == targets[i]
             d == Debug("module", MainFile, <<>>, w)
             e == Run(<<"EmitIdentExpr", Background, ModuleScope("main"), NewIdentExpr(name), name,
                                <<>>, <<>>, NoBinding, TargetRegister(w),
                                Log(d.w, [ev |-> "target", name |-> name, i |-> i,
                                          yield |-> d.w.nd, data |-> w.data])>>)
             forced == Run(<<"Force", e.ret, e.w>>)
             request == Request(forced.ret.value)
             fail(err, ww) == GenerateFail(err, ww)
         IN IF ~TargetDefined(name) THEN fail(TargetErr(name), Raise(w, TargetErr(name)))
            ELSE IF IsErr(d.err) THEN fail(d.err, d.w)
            ELSE IF IsErr(e.err) THEN fail(e.err, e.w)
            ELSE IF IsErr(request.err)
            THEN fail(request.err, RaiseCast(forced.w, request.err))
            ELSE Run(<<"GenerateFrom", i + 1, targets, AppendRequest(requests, request.req),
                       Log(forced.w, [ev |-> "request", name |-> name, i |-> i,
                                      req |-> request.req, val |-> forced.ret.value])>>)

\* A call of one method of the code generator by another: <<name, arguments>>.
Run(c) ==
    CASE c[1] = "EmitExpr" -> EmitExpr(c[2], c[3], c[4], c[5], c[6], c[7], c[8], c[9])
      [] c[1] = "EmitCallExpr" -> EmitCallExpr(c[2], c[3], c[4], c[5], c[6])
      [] c[1] = "EmitIdentExpr" -> EmitIdentExpr(c[2], c[3], c[4], c[5], c[6], c[7], c[8], c[9], c[10])
      [] c[1] = "EmitImport" -> EmitImport(c[2], c[3], c[4], c[5])
      [] c[1] = "EmitFuncDecl" -> EmitFuncDecl(c[2], c[3], c[4], c[5], c[6], c[7])
      [] c[1] = "EmitBinding" -> EmitBinding(c[2], c[3], c[4], c[5], c[6])
      [] c[1] = "lookupCall" -> lookupCall(c[2], c[3], c[4], c[5])
      [] c[1] = "EmitStmts" -> EmitStmts(c[2], c[3], c[4], c[5], c[6], c[7])
      [] c[1] = "EmitBlock" -> EmitBlock(c[2], c[3], c[4], c[5], c[6], c[7])
      [] c[1] = "EmitCallStmt" -> EmitCallStmt(c[2], c[3], c[4], c[5], c[6], c[7])
      [] c[1] = "Evaluate" -> Evaluate(c[2], c[3], c[4], c[5], c[6], c[7])
      [] c[1] = "Force" -> Force(c[2], c[3])
      [] c[1] = "Apply" -> Apply(c[2], c[3], c[4])
      [] c[1] = "GenerateFrom" -> GenerateFrom(c[2], c[3], c[4], c[5])

GenerateOp(targets, w) == Run(<<"GenerateFrom", 1, targets, <<>>, w>>)

(***************************************************************************)
(* The state machine: a client calls Generate on the main module, with any *)
(* targets and any behaviour of the environment, and takes the result.     *)
(***************************************************************************)
\* The registry before init() and no heredoc: the state of the variables a
\* client of Generate or of a register never touches.
NoProto == [in |-> <<>>, out |-> <<>>]

NotRun == [status |-> "none", errs |-> <<>>]

NoHeredoc == [start |-> "", terminate |-> "", pieces |-> <<>>]

Untouched ==
    /\ registry = <<>>
    /\ proto = NoProto
    /\ initErr = NotRun
    /\ heredoc = NoHeredoc
    /\ hret = NewRegister
    /\ dreg = NewRegister
    /\ dw = World([x \in ImportNames |-> NoModule], 0, NoFault)
    /\ dcalls = <<>>

NoInput == [targets |-> <<>>, flt |-> NoFault, data |-> [x \in ImportNames |-> NoModule]]

NoResult == [req |-> NilRequest, err |-> NoErr]

\* No import has gone through checker.CheckReferences yet.
NotChecked == [x \in ImportNames |-> "none"]

\* What the CheckReferences calls of one Generate call leave behind: for each
\* import the outcome of its last reference check so far.
CheckedAfter(events) ==
    [x \in ImportNames |->
        LET runs == SelectSeq(events, LAMBDA e : e.ev = "checkrefs" /\ e.name = x)
        IN IF runs = <<>> THEN checked[x]
           ELSE IF runs[Len(runs)].ok THEN "ok" ELSE "failed"]

Init ==
    /\ body \in Bodies
    /\ data = [x \in ImportNames |-> NoModule]
    /\ gen = 0
    /\ phase = "idle"
    /\ input = NoInput
    /\ result = NoResult
    /\ log = <<>>
    /\ calls = 0
    /\ checked = NotChecked
    /\ reg = NewRegister
    /\ rw = World(data, 0, NoFault)
    /\ eager = ZeroValue
    /\ ew = rw
    /\ seen = <<>>
    /\ nops = 0
    /\ Untouched

\* Generate has returned g: the client holds the result, the import objects
\* keep what the call installed on them.
Returns(g) ==
    /\ data' = g.w.data
    /\ gen' = g.w.gen
    /\ result' = [req |-> g.req, err |-> g.err]
    /\ log' = g.w.log
    /\ checked' = CheckedAfter(g.w.log)

Generate(targets, flt) ==
    /\ phase = "idle"
    /\ calls < MaxGenerate
    /\ Returns(GenerateOp(targets, World(data, gen, flt)))
    /\ input' = [targets |-> targets, flt |-> flt, data |-> data]
    /\ phase' = "done"
    /\ calls' = calls + 1
    /\ UNCHANGED <<body, regvars, initvars, docvars, declvars>>

\* The client takes the result; the module and its import objects stay.
Return ==
    /\ phase = "done"
    /\ phase' = "idle"
    /\ input' = NoInput
    /\ result' = NoResult
    /\ log' = <<>>
    /\ UNCHANGED <<body, data, gen, calls, checked, regvars, initvars, docvars, declvars>>

Next ==
    \/ \E targets \in SeqsUpTo(TargetNames, MaxTargets), flt \in Faults :
          Generate(targets, flt)
    \/ Return

Spec == Init /\ [][Next]_vars

(***************************************************************************)
(* The register on its own: a client stores values and closures in any     *)
(* order and forces the register now and then.                             *)
(***************************************************************************)
RegContext == WithReturnType(Background, "fs")

\* The closures EmitIdentExpr, EmitBlock and EmitExpr hand to SetAsync.
BuiltinClosure(name, args) ==
    [type |-> "builtin", ctx |-> RegContext, scope |-> ModuleScope("main"),
     bd |-> BuiltinDecl(name, BuiltinKinds(name)), args |-> args, opts |-> <<>>,
     b |-> NoBinding]

RegClosures ==
    { BuiltinClosure("run", <<StringValue("a")>>),
      BuiltinClosure("image", <<StringValue("b")>>),
      BuiltinClosure("image", <<>>),
      [type |-> "callstmt", ctx |-> RegContext, scope |-> ModuleScope("main"),
       stmt |-> CallStmt("f", "", <<>>, <<>>, NoExpr, ""), b |-> NoBinding],
      [type |-> "callexpr", ctx |-> RegContext, scope |-> ModuleScope("main"),
       expr |-> CallExpr("zz", "", <<>>, <<>>)] }

RegValues == {StringValue("s"), [kind |-> "fs", rep |-> <<>>, err |-> NoErr]}

InitReg ==
    /\ body = <<>>
    /\ data = [x \in ImportNames |-> NoModule]
    /\ gen = 0
    /\ phase = "idle"
    /\ input = NoInput
    /\ result = NoResult
    /\ log = <<>>
    /\ calls = 0
    /\ checked = NotChecked
    /\ reg = NewRegister
    /\ \E k \in 0..MaxFault : rw = World(data, 0, [NoFault EXCEPT !.call = k])
    /\ eager = ZeroValue
    /\ ew = rw
    /\ seen = <<>>
    /\ nops = 0
    /\ Untouched

\* ret.Set(v)
RSet(v) ==
    /\ nops < MaxOps
    /\ reg' = Set(reg, v)
    /\ eager' = IF IsErrValue(eager) THEN eager ELSE v
    /\ nops' = nops + 1
    /\ UNCHANGED <<genvars, rw, ew, seen, initvars, docvars, declvars>>

\* The store run at once returned a.
Stored(a) == eager' = a.val /\ ew' = a.w

\* ret.SetAsync(f)
RSetAsync(f) ==
    /\ nops < MaxOps
    /\ reg' = SetAsync(reg, f)
    /\ IF IsErrValue(eager) THEN UNCHANGED <<eager, ew>>
       ELSE Stored(Run(<<"Apply", f, eager, ew>>))
    /\ nops' = nops + 1
    /\ UNCHANGED <<genvars, rw, seen, initvars, docvars, declvars>>

\* Value() returned forced.ret.value.
Forced(forced) ==
    /\ reg' = forced.ret
    /\ rw' = forced.w
    /\ seen' = Append(seen, [got |-> forced.ret.value, want |-> eager,
                             pending |-> Len(reg.queue), calls |-> forced.w.nc])

\* ret.Value()
RValue ==
    /\ Len(seen) < MaxValues
    /\ Forced(Run(<<"Force", reg, rw>>))
    /\ UNCHANGED <<genvars, eager, ew, nops, initvars, docvars, declvars>>

NextReg ==
    \/ \E v \in RegValues : RSet(v)
    \/ \E f \in RegClosures : RSetAsync(f)
    \/ RValue

SpecReg == InitReg /\ [][NextReg]_vars

\* C5: Value() returns the last value stored, or the first error a store
\* ended with; from then on the register keeps that error: closures stored
\* later do not run and every later Value() returns the same error.
C5_Register ==
    /\ \A i \in DOMAIN seen : seen[i].got = seen[i].want
    /\ \A i, j \in DOMAIN seen :
          i < j /\ IsErrValue(seen[i].got) =>
              seen[j].got = seen[i].got /\ seen[j].calls = seen[i].calls

C5_Witness ==
    /\ Len(seen) = 2
    /\ seen[1].pending = 2 /\ IsErrValue(seen[1].got) /\ seen[1].calls = 1
    /\ seen[2].pending = 1 /\ seen[2].got = seen[1].got

(***************************************************************************)
(* Properties of Generate.                                                 *)
(***************************************************************************)
Done == phase = "done"

Events(kind) == SelectSeq(log, LAMBDA e : e.ev = kind)

Emitted(name) == \E k \in DOMAIN log : log[k].ev = "ident" /\ log[k].name = name

Undefined == {i \in DOMAIN input.targets : input.targets[i] \notin ModuleNames("main")}

FirstUndefined == CHOOSE i \in Undefined : \A j \in Undefined : i <= j

Missing(name) ==
    Err("plain", "target " \o name \o " is not defined in " \o MainFile, name)

TargetRequest(name) ==
    LET e == Run(<<"EmitIdentExpr", Background, ModuleScope("main"), NewIdentExpr(name), name,
                           <<>>, <<>>, NoBinding, NewRegister,
                           World(input.data, 0, NoFault)>>)
    IN Request(Run(<<"Force", e.ret, e.w>>).ret.value).req

\* C2: when Generate succeeds it returns Parallel over exactly one request per
\* target, the i-th being the request of forcing the register the i-th target
\* was emitted into, in the order of the target list.
C2_ParallelInOrder ==
    Done /\ ~IsErr(result.err) =>
        result.req = Parallel([i \in DOMAIN input.targets |->
                                  TargetRequest(input.targets[i])])

C2_Witness ==
    /\ Done /\ ~IsErr(result.err)
    /\ Len(input.targets) = 2
    /\ TargetRequest(input.targets[1]) # TargetRequest(input.targets[2])
    /\ body # <<>>

RECURSIVE StmtByStmt(_, _, _)
StmtByStmt(stmts, v, w) ==
    IF stmts = <<>> THEN v
    ELSE LET e == Run(<<"EmitStmts", WithReturnType(Background, "fs"),
                            [mod |-> "main", fun |-> "t", objs |-> <<>>],
                            <<Head(stmts)>>, NoBinding, Set(NewRegister, v), w>>)
             forced == Run(<<"Force", e.ret, e.w>>)
         IN StmtByStmt(Tail(stmts), forced.ret.value, forced.w)

\* C4: once the register of a block is forced its statements have taken
\* effect in source order, each on the forced value of its predecessor, the
\* first on the value from before the block; the result is the last one's.
C4_SourceOrder ==
    Done /\ input.targets # <<>> /\ input.targets[1] = "t" /\ Events("request") # <<>> =>
        Events("request")[1].req =
            Request(StmtByStmt(body, ZeroValue, World(input.data, 0, NoFault))).req

C4_Witness ==
    /\ Done /\ input.targets # <<>> /\ input.targets[1] = "t" /\ Events("request") # <<>>
    /\ Len(body) = 2 /\ body[1].type = "call" /\ body[2].type = "expr"
    /\ Len(Events("request")[1].req.fs) = 2

\* C6: an identifier resolving to a function parameter appends the
\* parameter's options after the register's when both are options, and
\* otherwise replaces the register's value by the parameter's.
C6_FieldAssign ==
    \A j \in DOMAIN log :
        log[j].ev = "field" =>
            LET e == log[j]
            IN /\ e.after.queue = <<>>
               /\ IF e.val.kind = "option" /\ e.before.value.kind = "option"
                  THEN e.after.value = [kind |-> "option", err |-> NoErr,
                                        rep |-> e.before.value.rep \o e.val.rep]
                  ELSE e.after.value = e.val

C6_Witness ==
    /\ \E j \in DOMAIN log :
          /\ log[j].ev = "field"
          /\ log[j].val.kind = "option" /\ log[j].val.rep # <<>>
          /\ log[j].before.value.kind = "option" /\ log[j].before.value.rep # <<>>
          /\ log[j].before.value.rep # log[j].val.rep
    /\ \E j \in DOMAIN log :
          log[j].ev = "field" /\ log[j].val.kind = "string"

ImportedOk(x) == {j \in DOMAIN log : log[j].ev = "import" /\ log[j].name = x /\ log[j].ok}

\* C8: the data of an import object is absent or a module that passed
\* parsing, SemanticPass and Check; EmitImport succeeds at most once for an
\* import and an installed module is never replaced.
C8_ImportOnce ==
    \A x \in ImportNames :
        /\ data[x] # NoModule => data[x].stage = "checked"
        /\ Cardinality(ImportedOk(x)) <= 1
        /\ Done /\ input.data[x] # NoModule => data[x] = input.data[x] /\ ImportedOk(x) = {}
        /\ Done /\ data[x] # input.data[x] =>
              \E j \in ImportedOk(x) : data[x].gen = log[j].gen

C8_Witness ==
    /\ Done /\ calls = 2
    /\ input.data["m"] # NoModule /\ data["m"] = input.data["m"]
    /\ \E j \in DOMAIN log : log[j].ev = "lookup" /\ log[j].name = "m"
    /\ ImportedOk("n") # {}

C10_BindingPassed ==
    \A j \in DOMAIN log :
        log[j].ev = "callstmt" =>
            LET e == log[j]
                expected == IF e.cur # NoBinding /\ e.sbind = e.cur.bind
                            THEN e.cur ELSE NoBinding
            IN /\ e.passed = expected
               /\ j < Len(log) /\ log[j + 1].ev = "ident" /\ log[j + 1].bind = expected
               /\ j + 4 <= Len(log) /\ log[j + 2].ev = "defer" /\ log[j + 4].ev = "call" =>
                     log[j + 4].bind = expected.bind

C10_Witness ==
    /\ \E j \in DOMAIN log :
          /\ log[j].ev = "callstmt" /\ log[j].cur # NoBinding /\ log[j].passed = log[j].cur
          /\ j + 4 <= Len(log) /\ log[j + 4].ev = "call" /\ log[j + 4].bind = log[j].sbind
    /\ \E j \in DOMAIN log :
          /\ log[j].ev = "callstmt" /\ log[j].cur # NoBinding /\ log[j].sbind # ""
          /\ log[j].passed = NoBinding
    /\ \E j \in DOMAIN log :
          log[j].ev = "callstmt" /\ log[j].cur # NoBinding /\ log[j].sbind = ""

(***************************************************************************)
(* Properties of the debugger's yields.                                    *)
(***************************************************************************)
\* What is emitted after a yield: a target, a function body, a call.
Follows == {"target", "body", "callstmt", "callexpr"}

YieldAt(ev) ==
    CASE ev = "target" -> "module"
      [] ev = "body" -> "func"
      [] OTHER -> ev

Interfaces == {"Context", "Value", "error", "any", "Filesystem"}

\* reflect: t.Kind() == reflect.Interface
IsInterface(t) == t \in Interfaces

\* reflect: t.Implements(u); it panics when u is not an interface type.
Implements(t, u) ==
    IF ~IsInterface(u) THEN "panic"
    ELSE IF u = "any" \/ t = u \/ (t = "Filesystem" /\ u = "Value") THEN "yes"
    ELSE "no"

\* Call(ctx, buildClient, incoming Value, options Option) (Value, error), as
\* reflect.TypeOf(Prototype{}).MethodByName("Call") describes it: the
\* receiver is its first input.
PrototypeCall ==
    [ins |-> <<"Prototype", "Context", "Client", "Value", "Option">>,
     outs |-> <<"Value", "error">>]

Signature(type, ins, outs) == [type |-> type, ins |-> ins, outs |-> outs]

\* The callables a table is made of: two that match the prototype (one with a
\* typed input of its own), one whose interfaces are narrower than the
\* prototype's, and ones that do not match in the number or the type of an
\* input or output.
CallablePool ==
    { Signature("Scratch", <<"Context", "Client", "Value", "Option">>, <<"Value", "error">>),
      Signature("Image", <<"Context", "Client", "Value", "Option", "string">>, <<"Value", "error">>),
      Signature("Narrow", <<"Context", "Client", "Filesystem", "Option">>, <<"Filesystem", "error">>),
      Signature("Short", <<"Context", "Client", "Value">>, <<"Value", "error">>),
      Signature("OneOut", <<"Context", "Client", "Value", "Option">>, <<"Value">>),
      Signature("WrongIn", <<"Context", "string", "Value", "Option">>, <<"Value", "error">>),
      Signature("WrongOut", <<"any", "Client", "Value", "Option">>, <<"Value", "string">>),
      Signature("Loose", <<"Context", "any", "Value", "Option">>, <<"Value", "error">>) }

Absent == Signature("", <<>>, <<>>)

RegistryKinds == {"fs", "string"}

RegistryNames == {"a", "b"}

Registries == [RegistryKinds -> [RegistryNames -> CallablePool \cup {Absent}]]

Entries(table) ==
    {e \in RegistryKinds \X RegistryNames : table[e[1]][e[2]] # Absent}

\* The orders a range over a map can take.
Orders(S) ==
    {s \in [1..Cardinality(S) -> S] : \A i, j \in DOMAIN s : i # j => s[i] # s[j]}

\* The comparison of one input or output with the prototype's.
TypeCheck(param, want) ==
    IF IsInterface(param)
    THEN CASE Implements(param, want) = "panic" -> "panic"
           [] Implements(param, want) = "yes" -> "match"
           [] OTHER -> "mismatch"
    ELSE IF param = want THEN "match" ELSE "mismatch"

\* The result of the first comparison that is not a match, "match" if all are.
FirstOff(have, want) ==
    LET off == {i \in DOMAIN want : TypeCheck(have[i], want[i]) # "match"}
    IN IF off = {} THEN "match"
       ELSE TypeCheck(have[CHOOSE i \in off : \A k \in off : i <= k],
                      want[CHOOSE i \in off : \A k \in off : i <= k])

Diagnostic(callable, in, out) ==
    [type |-> callable.type, ins |-> callable.ins, outs |-> callable.outs,
     in |-> in, out |-> out]

CheckPrototype(callable, in, out) ==
    LET err == [status |-> "error", err |-> Diagnostic(callable, in, out)]
        nil == [status |-> "ok", err |-> Diagnostic(Absent, <<>>, <<>>)]
        panic == [status |-> "panic", err |-> Diagnostic(Absent, <<>>, <<>>)]
    IN IF Len(callable.ins) < Len(in) \/ Len(callable.outs) # Len(out) THEN err
       ELSE IF FirstOff(callable.ins, in) = "panic" THEN panic
       ELSE IF FirstOff(callable.ins, in) = "mismatch" THEN err
       ELSE IF FirstOff(callable.outs, out) = "panic" THEN panic
       ELSE IF FirstOff(callable.outs, out) = "mismatch" THEN err
       ELSE nil

\* initCallables, the table ranged over in the given order.
initCallables(table, order) ==
    LET in == SubSeq(PrototypeCall.ins, 2, Len(PrototypeCall.ins))
        out == PrototypeCall.outs
        checks == [i \in DOMAIN order |->
                      CheckPrototype(table[order[i][1]][order[i][2]],
                                     proto.in \o in, proto.out \o out)]
        failed == SelectSeq(checks, LAMBDA c : c.status = "error")
        errs == [i \in DOMAIN failed |-> failed[i].err]
    IN [in |-> proto.in \o in, out |-> proto.out \o out,
        status |-> IF \E i \in DOMAIN checks : checks[i].status = "panic" THEN "panic"
                   ELSE IF Len(errs) > 0 THEN "error" ELSE "ok",
        errs |-> IF \E i \in DOMAIN checks : checks[i].status = "panic" THEN <<>> ELSE errs]

InitRegistry ==
    /\ body = <<>>
    /\ data = [x \in ImportNames |-> NoModule]
    /\ gen = 0
    /\ phase = "idle"
    /\ input = NoInput
    /\ result = NoResult
    /\ log = <<>>
    /\ calls = 0
    /\ checked = NotChecked
    /\ reg = NewRegister
    /\ rw = World(data, 0, NoFault)
    /\ eager = ZeroValue
    /\ ew = rw
    /\ seen = <<>>
    /\ nops = 0
    /\ registry \in Registries
    /\ proto = NoProto
    /\ initErr = NotRun
    /\ heredoc = NoHeredoc
    /\ hret = NewRegister
    /\ dreg = NewRegister
    /\ dw = World(data, 0, NoFault)
    /\ dcalls = <<>>

Initialised(r) ==
    /\ proto' = [in |-> r.in, out |-> r.out]
    /\ initErr' = [status |-> r.status, errs |-> r.errs]

\* init(): the one call of initCallables.
InitCallables(order) ==
    /\ initErr = NotRun
    /\ Initialised(initCallables(registry, order))
    /\ UNCHANGED <<genvars, regvars, registry, docvars, declvars>>

NextInit ==
    \E kinds \in Orders(RegistryKinds), names \in Orders(RegistryNames) :
        InitCallables(SelectSeq([i \in 1..4 |-> <<kinds[(i + 1) \div 2], names[2 - (i % 2)]>>],
                                LAMBDA e : e \in Entries(registry)))

SpecInit == InitRegistry /\ [][NextInit]_vars

\* A callable matches the prototype: at least the prototype's inputs, of the
\* prototype's types, first, and exactly the prototype's outputs.
Agrees(have, want) == have = want \/ (IsInterface(have) /\ Implements(have, want) = "yes")

Matches(callable) ==
    /\ Len(callable.ins) >= 4
    /\ \A i \in 1..4 : Agrees(callable.ins[i], PrototypeCall.ins[i + 1])
    /\ Len(callable.outs) = 2
    /\ \A i \in 1..2 : Agrees(callable.outs[i], PrototypeCall.outs[i])

Mismatching == {e \in Entries(registry) : ~Matches(registry[e[1]][e[2]])}

\* C12: initCallables checks every callable of every kind, fails exactly when
\* one of them does not match the prototype, and its error then holds one
\* diagnostic for each callable that does not match.
C12_EveryMismatch ==
    initErr # NotRun =>
        /\ initErr.status = (IF Mismatching = {} THEN "ok" ELSE "error")
        /\ Len(initErr.errs) = Cardinality(Mismatching)
        /\ \A e \in Mismatching :
              \E i \in DOMAIN initErr.errs :
                  initErr.errs[i].type = registry[e[1]][e[2]].type

C12_Witness ==
    /\ initErr.status = "error"
    /\ Len(initErr.errs) = 2
    /\ Cardinality(Entries(registry)) = 3

(***************************************************************************)
(* A heredoc's pieces written into a register.  A string is the sequence   *)
(* of its characters.                                                      *)
(***************************************************************************)
Chars == {"\n", "\t", " ", "a"}

Texts == SeqsUpTo(Chars, MaxText)

\* strings.Join(pieces, "")
Join(pieces) ==
    [i \in 1..(Len(pieces[1]) + Len(pieces[2])) |->
        IF i <= Len(pieces[1]) THEN pieces[1][i] ELSE pieces[2][i - Len(pieces[1])]]

\* strings.TrimLeft(s, cutset)
\* Variant: at most one leading character of the cutset removed.
TrimLeft_One(s, cutset) ==
    IF s # <<>> /\ s[1] \in cutset THEN SubSeq(s, 2, Len(s)) ELSE s

TrimLeft(s, cutset) ==
    LET keep == {i \in DOMAIN s : s[i] \notin cutset}
    IN IF keep = {} THEN <<>>
       ELSE SubSeq(s, CHOOSE i \in keep : \A k \in keep : i <= k, Len(s))

\* strings.TrimRight(s, cutset)
TrimRight(s, cutset) ==
    LET keep == {i \in DOMAIN s : s[i] \notin cutset}
    IN IF keep = {} THEN <<>>
       ELSE SubSeq(s, 1, CHOOSE i \in keep : \A k \in keep : i >= k)

\* strings.TrimSpace(s)
TrimSpace(s) == TrimRight(TrimLeft(s, {"\n", "\t", " "}), {"\n", "\t", " "})

\* strings.TrimSuffix(s, suffix)
TrimSuffix(s, suffix) ==
    IF Len(s) >= Len(suffix) /\ SubSeq(s, Len(s) - Len(suffix) + 1, Len(s)) = suffix
    THEN SubSeq(s, 1, Len(s) - Len(suffix))
    ELSE s

\* The lines a bufio.Scanner finds: a last line that is empty is not one.
RECURSIVE ScanLines(_)
ScanLines(s) ==
    LET nl == {i \in DOMAIN s : s[i] = "\n"}
        first == CHOOSE i \in nl : \A k \in nl : i <= k
    IN IF s = <<>> THEN <<>>
       ELSE IF nl = {} THEN <<s>>
       ELSE <<SubSeq(s, 1, first - 1)>> \o ScanLines(SubSeq(s, first + 1, Len(s)))

\* strings.Join(lines, " ")
RECURSIVE JoinLines(_)
JoinLines(lines) ==
    IF lines = <<>> THEN <<>>
    ELSE IF Len(lines) = 1 THEN lines[1]
    ELSE lines[1] \o <<" ">> \o JoinLines(Tail(lines))

Fold(raw) ==
    LET lines == ScanLines(TrimSpace(raw))
    IN JoinLines([i \in DOMAIN lines |-> TrimSpace(lines[i])])

\* dedent.Dedent(raw): a call of the library, kept as it is.
Dedent(raw) == <<"dedent.Dedent", raw>>

emitHeredocPieces(start, terminate, pieces, ret) ==
    LET raw == TrimRight(TrimLeft(Join(pieces), {"\n"}), {"\n", "\t"})
        op == TrimSuffix(start, terminate)
    IN CASE op = <<"<<-">> -> Set(ret, StringValue(Dedent(raw)))
         [] op = <<"<<~">> -> Set(ret, StringValue(Fold(raw)))
         [] OTHER -> Set(ret, StringValue(raw))

Heredocs ==
    { [start |-> <<op, "EOF">>, terminate |-> <<"EOF">>, pieces |-> <<p, q>>] :
        op \in {"<<", "<<-", "<<~"},
        p \in Texts, q \in {t \in Texts : Len(t) <= 1} } 

InitHeredoc ==
    /\ body = <<>>
    /\ data = [x \in ImportNames |-> NoModule]
    /\ gen = 0
    /\ phase = "idle"
    /\ input = NoInput
    /\ result = NoResult
    /\ log = <<>>
    /\ calls = 0
    /\ checked = NotChecked
    /\ reg = NewRegister
    /\ rw = World(data, 0, NoFault)
    /\ eager = ZeroValue
    /\ ew = rw
    /\ seen = <<>>
    /\ nops = 0
    /\ registry = <<>>
    /\ proto = NoProto
    /\ initErr = NotRun
    /\ heredoc \in Heredocs
    /\ hret = NewRegister
    /\ dreg = NewRegister
    /\ dw = World(data, 0, NoFault)
    /\ dcalls = <<>>

EmitHeredocPieces ==
    /\ hret = NewRegister
    /\ hret' = emitHeredocPieces(heredoc.start, heredoc.terminate, heredoc.pieces, hret)
    /\ UNCHANGED <<genvars, regvars, initvars, heredoc, declvars>>

NextHeredoc == EmitHeredocPieces

SpecHeredoc == InitHeredoc /\ [][NextHeredoc]_vars

\* The heredoc's text and the way it opens.
Body == heredoc.pieces[1] \o heredoc.pieces[2]

Opener == heredoc.start[1]

Emitted13 == hret.value.kind = "string"

\* What reaches the register for the text t handed to dedent or fold.
Elaborated(t) ==
    CASE Opener = "<<-" -> <<"dedent.Dedent", t>>
      [] Opener = "<<~" -> Fold(t)
      [] OTHER -> t

\* s without its first n and its last m characters.
Cut(s, n, m) == [i \in 1..(Len(s) - n - m) |-> s[i + n]]

\* The last m characters of s are newlines and tabs, and no more than m are.
Trailing(s, m) ==
    /\ \A i \in (Len(s) - m + 1)..Len(s) : s[i] \in {"\n", "\t"}
    /\ m < Len(s) => s[Len(s) - m] \notin {"\n", "\t"}

\* C13 as stated: exactly one leading newline is stripped, and all trailing
\* newlines and tabs, before dedent or fold.
C13_OneLeadingNewline ==
    Emitted13 =>
        \E n \in 0..1 :
            /\ n = 1 <=> (Body # <<>> /\ Body[1] = "\n")
            /\ \E m \in 0..(Len(Body) - n) :
                  /\ Trailing(Cut(Body, n, 0), m)
                  /\ hret.value.rep = <<Elaborated(Cut(Body, n, m))>>

\* C13: every leading newline is stripped from the joined text, and every
\* trailing newline and tab, before dedent or fold.
C13_LeadingNewlines ==
    Emitted13 =>
        \E n \in 0..Len(Body) :
            /\ \A i \in 1..n : Body[i] = "\n"
            /\ n < Len(Body) => Body[n + 1] # "\n"
            /\ \E m \in 0..(Len(Body) - n) :
                  /\ Trailing(Cut(Body, n, 0), m)
                  /\ hret.value.rep = <<Elaborated(Cut(Body, n, m))>>
                  /\ hret.queue = <<>>

C13_Witness ==
    /\ Emitted13
    /\ Len(Body) >= 4 /\ Body[1] = "\n" /\ Body[2] = "\n" /\ Body[Len(Body)] = "\t"
    /\ Opener = "<<-"
    /\ hret.value.rep = <<Dedent(<<"a">>)>>

(***************************************************************************)
(* Independence of the targets of one Generate call.                       *)
(***************************************************************************)
\* One target emitted into an empty register and forced, alone, with the import
\* objects as given.
Alone(name, objects) ==
    LET e == Run(<<"EmitIdentExpr", Background, ModuleScope("main"), NewIdentExpr(name), name,
                   <<>>, <<>>, NoBinding, NewRegister, World(objects, gen, NoFault)>>)
    IN Run(<<"Force", e.ret, e.w>>)

HostCalls(events) == SelectSeq(events, LAMBDA e : e.ev = "call")

\* C14: every target that yields a request yields the request it yields when it
\* is the only target, and makes the host calls it makes alone, each with the
\* same incoming value: nothing of the targets before it reaches it.
C14_TargetsIndependent ==
    \A j \in DOMAIN log :
        log[j].ev = "request" =>
            \E s \in 1..(j - 1) :
                /\ log[s].ev = "target" /\ log[s].i = log[j].i /\ log[s].name = log[j].name
                /\ log[j].req = Request(Alone(log[j].name, input.data).ret.value).req
                /\ log[j].val = Alone(log[j].name, log[s].data).ret.value
                /\ HostCalls(SubSeq(log, s, j)) = HostCalls(Alone(log[j].name, log[s].data).w.log)

C14_Witness ==
    \E j \in DOMAIN log :
        /\ log[j].ev = "request" /\ log[j].i = 2
        /\ Len(HostCalls(SubSeq(log, 1, j))) >= 3
        /\ \E k \in 1..(j - 1) : log[k].ev = "request" /\ log[k].val # log[j].val
                                 /\ log[k].val # ZeroValue

(***************************************************************************)
(* The steps of one call statement.  Evaluate's events and the events of a *)
(* call statement carry the number of evaluations they lie within, so the  *)
(* events of what an expression calls lie deeper than the events of the    *)
(* statement that evaluates the expression.                                *)
(***************************************************************************)
IsStep(e) ==
    \/ e.ev \in {"stmt", "eval", "forced", "failed", "callstmt"}
    \/ e.ev = "debug" /\ e.at = "callstmt"

\* The k-th of a set of positions.
Nth(P, k) == CHOOSE p \in P : Cardinality({q \in P : q <= p}) = k

\* The positions of the steps of the statement entered at s, in order: the
\* events of its own depth up to its dispatch, the next statement of that
\* depth or the return to its caller.
Steps(s) ==
    LET later == {p \in (s + 1)..Len(log) : IsStep(log[p])}
        stops == {p \in later : \/ log[p].d < log[s].d
                                \/ log[p].d = log[s].d /\ log[p].ev = "stmt"}
        own == {p \in later : log[p].d = log[s].d /\ \A q \in stops : p < q}
        upto == {p \in own : \A q \in own : log[q].ev = "callstmt" => p <= q}
    IN [k \in 1..Cardinality(upto) |-> Nth(upto, k)]

Statements == {s \in DOMAIN log : log[s].ev = "stmt"}

NSteps(s) == 2 * log[s].nargs + (IF log[s].with THEN 2 ELSE 0) + 2

\* The k-th step of the statement entered at s is the one the order gives:
\* the arguments from left to right, each forced before the next, the with
\* clause under the hint option::<name>, the debugger, the dispatch.
InOrder(s, k, e) ==
    LET n == log[s].nargs
        m == NSteps(s)
    IN CASE k = m -> e.ev = "callstmt" /\ e.name = log[s].name
         [] k = m - 1 -> e.ev = "debug" /\ e.node = log[s].name
         [] k <= 2 * n /\ k % 2 = 1 ->
               e.ev = "eval" /\ e.kind = log[s].sig[(k + 1) \div 2]
                             /\ e.left = n - ((k - 1) \div 2)
         [] k > 2 * n /\ k % 2 = 1 ->
               e.ev = "eval" /\ e.kind = "option::" \o log[s].name /\ e.left = 1
         [] OTHER -> e.ev \in {"forced", "failed"}

\* The step returned an error.
Returned15(s, k, p) ==
    \/ log[p].ev = "failed"
    \/ log[p].ev = "debug" /\ p < Len(log) /\ log[p + 1].ev = "error"
    \/ /\ log[p].ev = "forced" /\ log[s].with /\ k = NSteps(s) - 2
       /\ IsErr(AsKind(log[p].val, "option").err)
    \/ /\ log[p].ev = "forced" /\ k = NSteps(s) - 2
       /\ p < Len(log) /\ log[p + 1].ev = "error"
       /\ log[p + 1].err.msg = "breakpoint args must be strings"

\* The register of the step's expression held an error once it was forced.
HeldError(p) == log[p].ev = "forced" /\ IsErrValue(log[p].val)

Ordered(s, st) ==
    /\ Len(st) <= NSteps(s)
    /\ \A k \in DOMAIN st : InOrder(s, k, log[st[k]])

AnyErrorStops(s, st) ==
    \A k \in DOMAIN st : Returned15(s, k, st[k]) \/ HeldError(st[k]) => k = Len(st)

ReturnedErrorStops(s, st) ==
    /\ \A k \in DOMAIN st : Returned15(s, k, st[k]) => k = Len(st)
    /\ Done /\ Len(st) < NSteps(s) =>
          \/ st # <<>> /\ Returned15(s, Len(st), st[Len(st)])
          \/ st = <<>> /\ log[s + 1].ev = "error"

Leaked(s, st) == Len(st) = NSteps(s) /\ log[s].nargs = 2 /\ HeldError(st[2])

Stopped(s, st) ==
    /\ log[s].with /\ Len(st) = NSteps(s) - 2
    /\ Returned15(s, Len(st), st[Len(st)])

FsValue == [kind |-> "fs", rep |-> <<>>, err |-> NoErr]

OptionValue ==
    [kind |-> "option", err |-> NoErr,
     rep |-> <<[name |-> "env", args |-> <<>>, opts |-> <<>>, bind |-> ""]>>]

DeclValues == {StringValue("h"), StringValue("g"), FsValue, OptionValue}

DeclArgs ==
    SeqsUpTo(DeclValues, MaxArgs)
      \cup {<<StringValue("h"), StringValue("g"), StringValue("h")>>}

ReturnTypes == {"none", "fs", "string", "option::run"}

BuiltinDecls ==
    {BuiltinDecl(name, BuiltinKinds(name)) : name \in BuiltinNames}
      \cup {BuiltinDecl("nop", <<"fs", "string">>)}

InvokedFuncs == {"f", "q", "v"}

InitDecl ==
    /\ body = <<>>
    /\ data = [x \in ImportNames |-> NoModule]
    /\ gen = 0
    /\ phase = "idle"
    /\ input = NoInput
    /\ result = NoResult
    /\ log = <<>>
    /\ calls = 0
    /\ checked = NotChecked
    /\ reg = NewRegister
    /\ rw = World(data, 0, NoFault)
    /\ eager = ZeroValue
    /\ ew = rw
    /\ seen = <<>>
    /\ nops = 0
    /\ registry = <<>>
    /\ proto = NoProto
    /\ initErr = NotRun
    /\ heredoc = NoHeredoc
    /\ hret = NewRegister
    /\ dreg = NewRegister
    /\ dw = World(data, 0, NoFault)
    /\ dcalls = <<>>

\* EmitBuiltinDecl returned c.
BuiltinReturned(rt, bd, args, c) ==
    /\ dw' = c.w
    /\ dcalls' = Append(dcalls, [type |-> "builtin", rt |-> rt, name |-> bd.name,
                                 kinds |-> bd.kinds, args |-> args, err |-> c.err,
                                 from |-> Len(dw.log), to |-> Len(c.w.log),
                                 queued |-> 0])

EmitBuiltin(rt, bd, args) ==
    /\ dcalls = <<>>
    /\ BuiltinReturned(rt, bd, args,
                       EmitBuiltinDecl(WithReturnType(Background, rt), ModuleScope("main"),
                                       bd, args, <<>>, NoBinding, ZeroValue, dw))
    /\ UNCHANGED <<genvars, regvars, initvars, docvars, dreg>>

\* EmitFuncDecl returned r.
FuncReturned(name, args, r) ==
    /\ dreg' = r.ret
    /\ dw' = r.w
    /\ dcalls' = Append(dcalls, [type |-> "func", rt |-> "none", name |-> name,
                                 kinds |-> <<>>, args |-> args, err |-> r.err,
                                 from |-> Len(dw.log), to |-> Len(r.w.log),
                                 queued |-> Len(r.ret.queue) - Len(dreg.queue)])

EmitFunc(name, args) ==
    /\ Len(dcalls) < MaxDecls
    /\ \A i \in DOMAIN dcalls : dcalls[i].type = "func"
    /\ FuncReturned(name, args,
                    Run(<<"EmitFuncDecl", Background, ModuleDecl("main", name), args,
                          NoBinding, dreg, dw>>))
    /\ UNCHANGED <<genvars, regvars, initvars, docvars>>

DeclForced(forced) ==
    /\ dreg' = forced.ret
    /\ dw' = forced.w

\* ret.Value()
ForceDecls ==
    /\ dreg.queue # <<>>
    /\ DeclForced(Run(<<"Force", dreg, dw>>))
    /\ dcalls' = Append(dcalls, [type |-> "force", rt |-> "none", name |-> "",
                                 kinds |-> <<>>, args |-> <<>>, err |-> NoErr,
                                 from |-> Len(dw.log), to |-> Len(dw.log),
                                 queued |-> 0])
    /\ UNCHANGED <<genvars, regvars, initvars, docvars>>

NextDecl ==
    \/ \E rt \in ReturnTypes, bd \in BuiltinDecls, args \in DeclArgs : EmitBuiltin(rt, bd, args)
    \/ \E name \in InvokedFuncs, args \in DeclArgs : EmitFunc(name, args)
    \/ ForceDecls

SpecDecl == InitDecl /\ [][NextDecl]_vars

\* The events one invocation logged before it returned.
During(c) == SubSeq(dw.log, c.from + 1, c.to)

Invokes(c) == SelectSeq(During(c), LAMBDA e : e.ev = "call")

InternalError(msg, at) == Err("internal", msg, at)

\* The rows of the table that hold the name.
Rows(name) == {kind \in ReturnTypes : name \in Callables(kind)}

\* The row the claim selects for a builtin invocation, "" when there is none.
Selected(c) ==
    LET declared == {k \in DOMAIN c.kinds : c.kinds[k] \in Rows(c.name)}
    IN IF c.rt # "none" THEN (IF c.rt \in Rows(c.name) THEN c.rt ELSE "")
       ELSE IF declared = {} THEN ""
       ELSE c.kinds[CHOOSE k \in declared : \A j \in declared : k <= j]

\* C16: with a return type the callable is the one of the return type's row
\* and of no other; without one it is the one of the first of the builtin's
\* declared kinds whose row has the name; when there is none the call fails
\* with the internal error "unrecognized builtin" and nothing is invoked.
C16_CallableSelection ==
    \A i \in DOMAIN dcalls :
        dcalls[i].type = "builtin" =>
            LET c == dcalls[i]
            IN IF Selected(c) = ""
               THEN /\ c.err = InternalError("unrecognized builtin", c.name)
                    /\ Invokes(c) = <<>>
               ELSE /\ c.err # InternalError("unrecognized builtin", c.name)
                    /\ \A k \in DOMAIN Invokes(c) :
                          Invokes(c)[k].kind = Selected(c) /\ Invokes(c)[k].name = c.name
                    /\ ~IsErr(c.err) => Len(Invokes(c)) = 1

C16_Witness ==
    /\ \E i \in DOMAIN dcalls :
          /\ dcalls[i].type = "builtin" /\ dcalls[i].rt = "none" /\ dcalls[i].name = "env"
          /\ Len(Invokes(dcalls[i])) = 1 /\ Invokes(dcalls[i])[1].kind = "fs"

Params(c) == ModuleDecl("main", c.name).params

Regular(c, kind) == CallableParams(kind, c.name).fixed

\* C17: a function invoked with a number of arguments other than that of its
\* parameters returns the internal error "expected args" with no yield to the
\* debugger and nothing emitted; a builtin invoked with fewer arguments than
\* its callable has regular parameters returns that error and invokes nothing;
\* a variadic callable that is invoked gets every argument, the trailing ones
\* as its tail.
C17_ArgumentCount ==
    \A i \in DOMAIN dcalls :
        LET c == dcalls[i]
        IN /\ c.type = "func" /\ Len(c.args) # Len(Params(c)) =>
                 /\ c.err = InternalError("expected args", c.name)
                 /\ During(c) = <<[ev |-> "error", err |-> c.err]>>
                 /\ c.queued = 0
           /\ c.type = "func" /\ Len(c.args) = Len(Params(c)) =>
                 c.err # InternalError("expected args", c.name)
           /\ c.type = "builtin" /\ Selected(c) # "" =>
                 /\ Len(c.args) < Len(Regular(c, Selected(c))) =>
                       /\ c.err = InternalError("expected args", c.name)
                       /\ During(c) = <<[ev |-> "error", err |-> c.err]>>
                 /\ Len(c.args) >= Len(Regular(c, Selected(c))) =>
                       c.err # InternalError("expected args", c.name)
                 /\ \A k \in DOMAIN Invokes(c) :
                       Invokes(c)[k].args =
                           IF CallableParams(Selected(c), c.name).variadic THEN c.args
                           ELSE SubSeq(c.args, 1, Len(Regular(c, Selected(c))))

C17_Witness ==
    /\ Len(dcalls) = 2
    /\ dcalls[1].type = "func" /\ dcalls[1].name = "q" /\ Len(dcalls[1].args) = 1
    /\ dcalls[1].err = InternalError("expected args", "q")
    /\ dcalls[2].type = "func" /\ ~IsErr(dcalls[2].err) /\ dcalls[2].queued > 0

C17_VariadicWitness ==
    \E i \in DOMAIN dcalls :
        /\ dcalls[i].type = "builtin" /\ dcalls[i].name = "format"
        /\ Len(dcalls[i].args) = 3
        /\ Len(Invokes(dcalls[i])) = 1
        /\ Invokes(dcalls[i])[1].args = dcalls[i].args

\* The invocations that got past the count of their arguments, in order.
Invoked == SelectSeq(dcalls, LAMBDA c : c.type = "func" /\ Len(c.args) = Len(Params(c)))

\* The reads of parameter "s" by the bodies that ran, in order.
Reads == SelectSeq(dw.log, LAMBDA e : e.ev = "field" /\ e.name = "s")

\* C18: every invocation makes a scope of its own under the function, holding
\* each parameter that is not variadic bound to the argument of its position
\* and nothing else; a body reads the arguments of its own invocation, also
\* when another invocation of the function was bound before the body ran; the
\* scope of the module has none of the bindings.
C18_OwnScope ==
    /\ \A i \in DOMAIN dcalls :
          LET c == dcalls[i]
              made == SelectSeq(During(c), LAMBDA e : e.ev = "scope")
          IN c.type = "func" =>
                IF Len(c.args) # Len(Params(c)) THEN made = <<>>
                ELSE /\ Len(made) = 1 /\ made[1].fun = c.name
                     /\ \A p \in DOMAIN Params(c) :
                           IF Params(c)[p].variadic
                           THEN \A k \in DOMAIN made[1].objs :
                                   made[1].objs[k].name # Params(c)[p].name
                           ELSE \E k \in DOMAIN made[1].objs :
                                   /\ made[1].objs[k].name = Params(c)[p].name
                                   /\ made[1].objs[k].data = c.args[p]
                     /\ Len(made[1].objs) =
                           Cardinality({p \in DOMAIN Params(c) : ~Params(c)[p].variadic})
    /\ Len(Reads) <= Len(SelectSeq(Invoked, LAMBDA c : c.name # "f"))
    /\ \A k \in DOMAIN Reads :
          Reads[k].val = SelectSeq(Invoked, LAMBDA c : c.name # "f")[k].args[1]
    /\ \A name \in {"s", "o", "r"} : Lookup(ModuleScope("main"), name).node = NilObj

C18_Witness ==
    /\ Len(Reads) = 2 /\ Reads[1].val # Reads[2].val
    /\ Len(Invoked) = 2 /\ Invoked[1].name = "q" /\ Invoked[2].name = "q"
    /\ dcalls[3].type = "force"
    /\ ~IsErrValue(dreg.value)

(***************************************************************************)
(* C19: lookupCall and the reference check of an import.                   *)
(***************************************************************************)
\* The call statements on an import that lookupCall let through: the closure
\* of EmitBlock enters EmitCallStmt only after lookupCall returned nil.
LetThrough(x) == {j \in DOMAIN log : log[j].ev = "stmt" /\ log[j].name = x}

\* C19: lookupCall returns success for a name resolving to an import only if
\* CheckReferences has succeeded for that import; once CheckReferences has
\* failed for an import whose module was loaded, no later lookupCall for that
\* import succeeds.
C19_ReferenceCheckKept ==
    \A x \in ImportNames :
        /\ LetThrough(x) # {} => checked[x] = "ok"
        /\ checked[x] = "failed" => LetThrough(x) = {}

\* A second Generate finds the module a failed reference check left on the
\* import object, and its call statement on the import goes ahead.
C19_Witness ==
    /\ Done /\ calls = 2
    /\ \E x \in ImportNames :
          /\ input.data[x] # NoModule
          /\ checked[x] = "failed"
          /\ \E j \in DOMAIN log : log[j].ev = "lookup" /\ log[j].name = x
          /\ LetThrough(x) # {}
          /\ Events("checkrefs") = <<>>

(***************************************************************************)
(* C20: what Generate has done by the time it meets an undefined target.   *)
(***************************************************************************)
\* The debugger yields Generate makes itself, one per target (codegen.go:74).
TargetYields == SelectSeq(log, LAMBDA e : e.ev = "debug" /\ e.at = "module")

\* C20 as stated: with an undefined name anywhere among the targets Generate
\* evaluates no target at all: no debugger yield, no emission and no forcing
\* of a register, not even for defined targets listed earlier.
C20_NothingEvaluated ==
    Done /\ Undefined # {} =>
        /\ Events("debug") = <<>>
        /\ Events("target") = <<>>
        /\ Events("ident") = <<>>
        /\ Events("request") = <<>>

\* C20: Generate evaluates no target from the first undefined name on: the
\* yields, emissions and forced requests of the call are those of targets
\* listed before it, taken in order; and when Generate reports the undefined
\* target, every target before it has been yielded, emitted and forced.
C20_EvaluatedBeforeUndefined ==
    Done /\ Undefined # {} =>
        LET T == Events("target")
            Q == Events("request")
            Y == TargetYields
        IN /\ \A j \in DOMAIN T : T[j].i = j /\ j < FirstUndefined
           /\ \A j \in DOMAIN Q : Q[j].i = j /\ j < FirstUndefined
           /\ Len(Y) < FirstUndefined
           /\ Len(Q) <= Len(T) /\ Len(T) <= Len(Y)
           /\ result.err = Missing(input.targets[FirstUndefined]) =>
                 /\ Len(Y) = FirstUndefined - 1
                 /\ Len(T) = FirstUndefined - 1
                 /\ Len(Q) = FirstUndefined - 1

\* A defined target listed before the undefined one was yielded, emitted with
\* a host call and forced into a request before Generate gave up.
C20_Witness ==
    /\ Done /\ Len(input.targets) = 2
    /\ Undefined = {2}
    /\ Len(TargetYields) = 1
    /\ Len(Events("target")) = 1
    /\ Len(Events("request")) = 1
    /\ Events("call") # <<>>
    /\ Events("apply") # <<>>
    /\ result.err = Missing(input.targets[2])

====
